---- MODULE Spec2Model ----
(***************************************************************************)
(* A model of puzzles/emcc-dependency-info.py: extraction of a copyright   *)
(* notice from a source file, discovery of an accompanying license file,   *)
(* grouping of the per-file results into dependencies, and the batch run   *)
(* of main().                                                              *)
(*                                                                         *)
(* Text is a sequence of symbols.  A symbol is one character where the     *)
(* code looks at single characters (" ", "/", "*", "\n", "\r") and one     *)
(* word or phrase elsewhere ("Copyright", "MIT license", ...).  A run of   *)
(* ten "=" or ten "-" characters is the symbol "==========" or             *)
(* "----------".  A line is a text that ends with "\n"; a file is a        *)
(* sequence of lines.  A path is a record of its leading "/" (abs) and     *)
(* its components (parts), each component a text: /a/x.c has the parts     *)
(* <<"a">> and <<"x", ".c">>.  Python's None is the value None (text),     *)
(* NonePath (path) or NoneInfo (LicenseInfo).                              *)
(***************************************************************************)
EXTENDS Naturals, Sequences, FiniteSets, TLC

VARIABLES
    \* the file system
    files,          \* path -> text of the file (NoFile when there is none)
    listing,        \* directory -> names that iterdir() yields, in its order
    \* extract_license_from_source
    source_path,    \* the path find_license_info is working on
    source_file,    \* the lines of the open file
    pos,            \* index of the next line readline() returns
    line,           \* the line last read
    license, copyright, leader, comment, prefix, notice,
    xpc,            \* "idle", "scan", "notice", "done"
    xresult,        \* what extract_license_from_source returned
    \* find_license_file
    directory,
    fpc,            \* "idle", "test", "body", "done", "raised"
    fresult,
    \* group_dependencies
    license_infos, groups, gi, name, dependencies,
    gpc,            \* "idle", "group", "emit", "done", "raised"
    \* main
    source_paths, idx,
    mpc,            \* "idle", "loop", "extract", "find", "subst", "group", "written", "aborted"
    output

fsvars == <<files, listing>>
xvars  == <<source_file, pos, line, license, copyright, leader, comment,
            prefix, notice, xpc, xresult>>
fvars  == <<directory, fpc, fresult>>
gvars  == <<license_infos, groups, gi, name, dependencies, gpc>>
mvars  == <<source_paths, idx, mpc, output>>
vars   == <<fsvars, source_path, xvars, fvars, gvars, mvars>>

-----------------------------------------------------------------------------
(* Values *)

None == <<"<None>">>
NoFile == <<"<NoFile>">>
NonePath == [abs |-> FALSE, parts |-> <<None>>]

Path(abs, parts) == [abs |-> abs, parts |-> parts]

LicenseInfo(sp, lic, cr, nt, lp) ==
    [source_path |-> sp, license |-> lic, copyright |-> cr, notice |-> nt,
     license_path |-> lp]

NoneInfo == LicenseInfo(NonePath, None, None, None, NonePath)

Dependency(nm, lic, nt) == [name |-> nm, license |-> lic, notice |-> nt]

\* Python truth of an optional text: neither None nor ""
Truthy(s) == s # None /\ s # <<>>

LICENSE_TEXT_LLVM_EXCEPTION == <<"Apache License v2.0", " ", "with LLVM Exceptions">>
SPDX_IDENTIFIER_LLVM_EXCEPTION == <<"Apache-2.0 WITH LLVM-exception">>
EMSCRIPTEN_NOTICE == <<"Emscripten is available under two separate licenses">>

-----------------------------------------------------------------------------
(* Text *)

IsSpace(c) == c \in {" ", "\n", "\r", "\t"}

Drop(s, n) == SubSeq(s, n + 1, Len(s))

RECURSIVE lstrip(_)
lstrip(s) == IF s # <<>> /\ IsSpace(Head(s)) THEN lstrip(Tail(s)) ELSE s

RECURSIVE rstrip(_)
rstrip(s) ==
    IF s # <<>> /\ IsSpace(s[Len(s)]) THEN rstrip(SubSeq(s, 1, Len(s) - 1)) ELSE s

strip(s) == rstrip(lstrip(s))

startswith(s, p) == Len(s) >= Len(p) /\ SubSeq(s, 1, Len(p)) = p

\* re.IGNORECASE: the case-folded form of a symbol
lower(c) ==
    CASE c \in {"Copyright", "COPYRIGHT"} -> "copyright"
      [] c = "(C)" -> "(c)"
      [] c = "SPDX-License-Identifier:" -> "spdx-license-identifier:"
      [] c \in {"LICENSE", "License"} -> "license"
      [] c \in {"NOTICE", "Notice"} -> "notice"
      [] c \in {"COPYING", "Copying"} -> "copying"
      [] OTHER -> c

\* what "." can match of s: everything before the first newline
RECURSIVE until_newline(_)
until_newline(s) ==
    IF s = <<>> \/ Head(s) = "\n" THEN <<>> ELSE <<Head(s)>> \o until_newline(Tail(s))

RECURSIVE leading_spaces(_)
leading_spaces(s) ==
    IF s # <<>> /\ IsSpace(Head(s)) THEN 1 + leading_spaces(Tail(s)) ELSE 0

Min(S) == CHOOSE x \in S : \A y \in S : x <= y

\* re.search(r"SPDX-License-Identifier:(?P<license>.*)", line, re.IGNORECASE)
\* followed by match["license"].strip(); None when there is no match
spdx_license(ln) ==
    LET at == {i \in 1..Len(ln) : lower(ln[i]) = "spdx-license-identifier:"}
    IN  IF at = {} THEN None ELSE strip(until_newline(Drop(ln, Min(at))))

re_comment == << <<"/", "/">>, <<"/", "*">>, <<" ", "*">>, <<>> >>

re_copyright == {"copyright", "Â©", "(c)"}

NoMatch == [leader |-> None, comment |-> None, copyright |-> None]

\* the copyright text when alternative k of re_comment matches after `lead`
\* symbols of leader, optional white space follows, and a copyright word
\* comes next; None otherwise
copyright_at(body, lead, k) ==
    LET rest  == Drop(body, lead)
        after == lstrip(Drop(rest, Len(re_comment[k])))
    IN  IF /\ startswith(rest, re_comment[k])
           /\ after # <<>>
           /\ lower(after[1]) \in re_copyright
        THEN after
        ELSE None

\* the regular expression's search order: the longest leader first, and for
\* each leader the alternatives of re_comment from left to right
RECURSIVE copyright_search(_, _, _)
copyright_search(body, lead, k) ==
    IF copyright_at(body, lead, k) # None
    THEN [leader |-> SubSeq(body, 1, lead), comment |-> re_comment[k],
          copyright |-> copyright_at(body, lead, k)]
    ELSE IF k < Len(re_comment) THEN copyright_search(body, lead, k + 1)
    ELSE IF lead > 0 THEN copyright_search(body, lead - 1, 1)
    ELSE NoMatch

\* re.match(rf"^(?P<leader>\s*)(?P<comment>{re_comment})\s*
\*             (?P<copyright>{re_copyright}.*)$", line, re.IGNORECASE)
match_copyright(ln) ==
    LET body == until_newline(ln)
    IN  copyright_search(body, leading_spaces(body), 1)

\* re_separator: white space, then ten or more "=" or ten or more "-", then
\* white space
re_separator(content) ==
    LET s == strip(content)
    IN  /\ s # <<>>
        /\ \/ \A i \in 1..Len(s) : s[i] = "=========="
           \/ \A i \in 1..Len(s) : s[i] = "----------"

-----------------------------------------------------------------------------
(* extract_license_from_source *)

\* source_file.readline(): "" at the end of the file
readline == IF pos <= Len(source_file) THEN source_file[pos] ELSE <<>>

advance == IF pos <= Len(source_file) THEN pos + 1 ELSE pos

\* `notice.strip() or None`
notice_or_none(s) == IF strip(s) # <<>> THEN strip(s) ELSE None

\* the lines of the open file
open(path) == files[path]

extract_begin(path) ==
    /\ source_path' = path
    /\ source_file' = open(path)
    /\ pos' = 1
    /\ line' = <<>>
    /\ license' = None
    /\ copyright' = None
    /\ leader' = None
    /\ comment' = None
    /\ prefix' = None
    /\ notice' = None
    /\ xresult' = NoneInfo
    /\ xpc' = "scan"

\* one iteration of the outer `while True` loop
extract_license_from_source_scan ==
    /\ xpc = "scan"
    /\ line' = readline
    /\ pos' = advance
    /\ LET lic == spdx_license(readline)
           m   == match_copyright(readline)
           cm  == IF m.comment = <<"/", "*">> THEN <<" ", "*">> ELSE m.comment
       IN  IF readline = <<>>
           THEN /\ xpc' = "done"
                /\ xresult' = NoneInfo
                /\ UNCHANGED <<license, copyright, leader, comment, prefix, notice>>
           ELSE IF lic = SPDX_IDENTIFIER_LLVM_EXCEPTION
           THEN /\ xpc' = "done"
                /\ license' = lic
                /\ xresult' = LicenseInfo(source_path, lic, None, None, NonePath)
                /\ UNCHANGED <<copyright, leader, comment, prefix, notice>>
           ELSE IF m # NoMatch
           THEN /\ xpc' = "notice"
                /\ license' = lic
                /\ copyright' = m.copyright
                /\ leader' = m.leader
                /\ comment' = cm
                /\ prefix' = m.leader \o cm
                /\ notice' = <<>>
                /\ UNCHANGED xresult
           ELSE /\ xpc' = "scan"
                /\ license' = lic
                /\ UNCHANGED <<copyright, leader, comment, prefix, notice, xresult>>
    /\ UNCHANGED <<fsvars, source_path, source_file, fvars, gvars, mvars>>

\* whether the notice loop breaks on the line just read
notice_break(ln) ==
    \/ ~startswith(ln, prefix)
    \/ comment = <<"*">> /\ startswith(ln, leader \o <<"*", "/">>)
    \/ strip(notice) # <<>> /\ re_separator(Drop(ln, Len(prefix)))

\* one iteration of the inner `while True` loop, and the return after it
extract_license_from_source_notice ==
    /\ xpc = "notice"
    /\ line' = readline
    /\ pos' = advance
    /\ IF notice_break(readline)
       THEN /\ xpc' = "done"
            /\ notice' = notice_or_none(notice)
            /\ xresult' = LicenseInfo(source_path, license, copyright,
                                      notice_or_none(notice), NonePath)
       ELSE /\ xpc' = "notice"
            /\ notice' = notice \o Drop(readline, Len(prefix))
            /\ UNCHANGED xresult
    /\ UNCHANGED <<fsvars, source_path, source_file, license, copyright, leader,
                   comment, prefix, fvars, gvars, mvars>>

-----------------------------------------------------------------------------
(* Paths *)

\* Path.parent: the root and "." are their own parents
parent(p) ==
    IF p.parts = <<>> THEN p ELSE Path(p.abs, SubSeq(p.parts, 1, Len(p.parts) - 1))

\* Path.name: "" for the root and for "."
basename(p) == IF p.parts = <<>> THEN <<>> ELSE p.parts[Len(p.parts)]

\* directory / name
child(d, nm) == Path(d.abs, Append(d.parts, nm))

\* bool(path): a Path defines neither __bool__ nor __len__
path_truthy(p) == TRUE

\* list(directory.iterdir())
iterdir(d) == [i \in 1..Len(listing[d]) |-> child(d, listing[d][i])]

\* re_licence_filename.match(name): the name starts with one of the words,
\* in either case; the suffix group may match nothing
re_licence_filename(nm) ==
    /\ nm # <<>>
    /\ lower(nm[1]) \in {"copying", "copyright", "notice", "license", "licence"}

RECURSIVE select_license_paths(_)
select_license_paths(ps) ==
    IF ps = <<>> THEN <<>>
    ELSE IF re_licence_filename(basename(Head(ps)))
         THEN <<Head(ps)>> \o select_license_paths(Tail(ps))
         ELSE select_license_paths(Tail(ps))

\* [path for path in directory.iterdir() if re_licence_filename.match(path.name)]
license_paths(d) == select_license_paths(iterdir(d))

\* "\n  ".join(license_paths) raises TypeError: the items are Paths, and
\* str.join takes only str
join_raises(ps) == Len(ps) > 0

-----------------------------------------------------------------------------
(* find_license_file *)

find_begin(path) ==
    /\ directory' = parent(path)
    /\ fpc' = "test"
    /\ fresult' = NoneInfo

\* the test of `while directory:`
find_license_file_test ==
    /\ fpc = "test"
    /\ IF path_truthy(directory)
       THEN fpc' = "body" /\ UNCHANGED fresult
       ELSE fpc' = "done" /\ fresult' = NoneInfo
    /\ UNCHANGED <<fsvars, source_path, xvars, directory, gvars, mvars>>

\* the body of the loop, for one directory
find_license_file_body ==
    /\ fpc = "body"
    /\ LET found == license_paths(directory)
       IN  IF Len(found) > 1 /\ join_raises(found)
           THEN fpc' = "raised" /\ UNCHANGED <<directory, fresult>>
           ELSE IF found # <<>>
           THEN /\ fpc' = "done"
                /\ fresult' = LicenseInfo(source_path, None, None, None, found[1])
                /\ UNCHANGED directory
           ELSE /\ fpc' = "test"
                /\ directory' = parent(directory)
                /\ UNCHANGED fresult
    /\ UNCHANGED <<fsvars, source_path, xvars, gvars, mvars>>

-----------------------------------------------------------------------------
(* Notices and license files *)

\* re.sub(r"\s+", " ", ...): each run of white space becomes one " "
RECURSIVE collapse_spaces(_)
collapse_spaces(s) ==
    IF s = <<>> THEN <<>>
    ELSE IF IsSpace(Head(s)) THEN <<" ">> \o collapse_spaces(lstrip(s))
    ELSE <<Head(s)>> \o collapse_spaces(Tail(s))

\* `phrase in s`
contains(s, phrase) ==
    \E i \in 1..Len(s) :
        i + Len(phrase) - 1 <= Len(s) /\ SubSeq(s, i, i + Len(phrase) - 1) = phrase

infer_license_identifier(nt) ==
    LET n == collapse_spaces(strip(nt))
    IN  IF contains(n, LICENSE_TEXT_LLVM_EXCEPTION)
        THEN SPDX_IDENTIFIER_LLVM_EXCEPTION
        ELSE IF contains(n, <<"the", " ", "MIT license", " ",
                 "and the University of Illinois/NCSA Open Source License">>)
        THEN <<"(MIT OR NCSA)">>
        ELSE IF contains(n, <<"MIT license">>)
        THEN <<"MIT">>
        ELSE IF contains(n, <<"Permission to use, copy, modify, and distribute this software is freely granted, provided that this notice is preserved.">>)
        THEN <<"SunPro">>
        ELSE None

RECURSIVE concat(_)
concat(ls) == IF ls = <<>> THEN <<>> ELSE Head(ls) \o concat(Tail(ls))

\* license_path.read_text()
read_text(p) == concat(files[p])

\* re.sub(r"^<marker>.*\Z", "", text, flags=re.MULTILINE | re.DOTALL): the
\* text is cut at the first line that starts with the marker
truncate_at(text, marker) ==
    LET at == {i \in 1..Len(text) :
                 text[i] = marker /\ (i = 1 \/ text[i - 1] = "\n")}
    IN  IF at = {} THEN text ELSE SubSeq(text, 1, Min(at) - 1)

read_license_file(lp) ==
    LET package_name == basename(parent(lp))
    IN  IF package_name = <<"emscripten">>
        THEN truncate_at(read_text(lp), "This program uses portions of Node")
        ELSE IF package_name = <<"musl">>
        THEN truncate_at(read_text(lp), "Authors/contributors include")
        ELSE read_text(lp)

-----------------------------------------------------------------------------
(* Sorting and joining *)

\* the symbols of copyright statements and file names, in the order of
\* Python's string comparison
SymbolOrder ==
    <<" ", "(c)", ".c", "Acme", "Bolt", "Copyright", "MIT",
      "SPDX-License-Identifier:", "copying", "v", "w", "x", "z">>

ord(c) == CHOOSE i \in 1..Len(SymbolOrder) : SymbolOrder[i] = c

\* a < b for str
RECURSIVE text_less(_, _)
text_less(a, b) ==
    IF b = <<>> THEN FALSE
    ELSE IF a = <<>> THEN TRUE
    ELSE IF Head(a) = Head(b) THEN text_less(Tail(a), Tail(b))
    ELSE ord(Head(a)) < ord(Head(b))

\* sorted(set) for a set of texts
RECURSIVE sorted_set(_)
sorted_set(S) ==
    IF S = {} THEN <<>>
    ELSE LET least == CHOOSE x \in S : \A y \in S : x = y \/ text_less(x, y)
         IN  <<least>> \o sorted_set(S \ {least})

RECURSIVE insert_sorted(_, _)
insert_sorted(x, l) ==
    IF l = <<>> THEN <<x>>
    ELSE IF text_less(x, Head(l)) THEN <<x>> \o l
    ELSE <<Head(l)>> \o insert_sorted(x, Tail(l))

\* sorted(list) for a list of texts
RECURSIVE sorted_list(_)
sorted_list(l) ==
    IF l = <<>> THEN <<>> ELSE insert_sorted(Head(l), sorted_list(Tail(l)))

\* sep.join(texts)
RECURSIVE join(_, _)
join(sep, texts) ==
    IF texts = <<>> THEN <<>>
    ELSE IF Len(texts) = 1 THEN Head(texts)
    ELSE Head(texts) \o sep \o join(sep, Tail(texts))

-----------------------------------------------------------------------------
(* group_dependencies *)

AttributeError == <<"<AttributeError>">>
ValueError == <<"<ValueError>">>

\* license_info.license_path or license_info.notice or license_info.source_path;
\* a key is a Path (path) or a str (text), and a Path never equals a str
group_key(info) ==
    IF info.license_path # NonePath /\ path_truthy(info.license_path)
    THEN [path |-> info.license_path, text |-> None]
    ELSE IF Truthy(info.notice)
    THEN [path |-> NonePath, text |-> info.notice]
    ELSE [path |-> info.source_path, text |-> None]

\* isinstance(key, Path)
key_is_path(key) == key.path # NonePath

\* groups[key].append(license_info); a dict keeps the order of insertion
append_to_group(gs, info) ==
    LET at == {i \in 1..Len(gs) : gs[i].key = group_key(info)}
    IN  IF at = {}
        THEN Append(gs, [key |-> group_key(info), items |-> <<info>>])
        ELSE [gs EXCEPT ![Min(at)].items = Append(@, info)]

\* the first loop
RECURSIVE make_groups(_, _)
make_groups(infos, gs) ==
    IF infos = <<>> THEN gs
    ELSE make_groups(Tail(infos),
                     IF Head(infos) # NoneInfo
                     THEN append_to_group(gs, Head(infos))
                     ELSE gs)

\* resolve_notice without the fall back to the license file
resolve_notice_without_license_file(item) ==
    IF Truthy(item.notice) THEN item.notice ELSE <<>>

\* the notice of the representative item
resolve_notice(item) ==
    LET nt == IF item.notice = None /\ item.license_path # NonePath
              THEN read_license_file(item.license_path)
              ELSE item.notice
    IN  IF Truthy(nt) THEN nt ELSE <<>>

\* item.license or infer_license_identifier(notice)
resolve_license(item) ==
    IF Truthy(item.license) THEN item.license
    ELSE infer_license_identifier(resolve_notice(item))

RECURSIVE common_prefix(_, _)
common_prefix(a, b) ==
    IF a = <<>> \/ b = <<>> \/ Head(a) # Head(b) THEN <<>>
    ELSE <<Head(a)>> \o common_prefix(Tail(a), Tail(b))

RECURSIVE common_parts(_)
common_parts(ps) ==
    IF Len(ps) = 1 THEN Head(ps).parts
    ELSE common_prefix(Head(ps).parts, common_parts(Tail(ps)))

source_paths_of(items) == [i \in 1..Len(items) |-> items[i].source_path]

\* os.path.commonpath raises ValueError("Can't mix absolute and relative paths")
mixes_absolute(ps) == \E i, j \in 1..Len(ps) : ps[i].abs # ps[j].abs

\* os.path.commonpath(paths): "/" or "" followed by the common components
commonpath(ps) == Path(ps[1].abs, common_parts(ps))

\* bool(common_parent), a str
commonpath_truthy(c) == c.abs \/ c.parts # <<>>

names_of(items) == [i \in 1..Len(items) |-> basename(items[i].source_path)]

\* the name of a group, or the exception that computing it raises
group_name(key, items) ==
    IF Len(items) = 1
    THEN basename(items[1].source_path)
    ELSE IF key_is_path(key)
    THEN IF items[1].license_path = NonePath
         THEN AttributeError
         ELSE basename(parent(items[1].license_path))
    ELSE IF mixes_absolute(source_paths_of(items))
    THEN ValueError
    ELSE IF commonpath_truthy(commonpath(source_paths_of(items)))
    THEN basename(commonpath(source_paths_of(items)))
    ELSE join(<<", ">>, sorted_list(names_of(items)))

RECURSIVE truthy_copyrights(_)
truthy_copyrights(items) ==
    IF items = <<>> THEN <<>>
    ELSE IF Truthy(Head(items).copyright)
    THEN <<Head(items).copyright>> \o truthy_copyrights(Tail(items))
    ELSE truthy_copyrights(Tail(items))

\* copyrights_of without sorted(set(...)): the statements in item order
copyrights_in_item_order(items) == truthy_copyrights(items)

\* sorted(set(item.copyright for item in items if item.copyright))
copyrights_of(items) ==
    sorted_set({items[i].copyright : i \in {j \in 1..Len(items) : Truthy(items[j].copyright)}})

linebreak == <<"\r">>

\* the notice that is written out
final_notice(items) ==
    IF copyrights_of(items) # <<>>
    THEN join(linebreak, copyrights_of(items)) \o <<"\n", "\n">> \o resolve_notice(items[1])
    ELSE resolve_notice(items[1])

\* `if license_id == SPDX_IDENTIFIER_LLVM_EXCEPTION: continue`
dropped(items) == resolve_license(items[1]) = SPDX_IDENTIFIER_LLVM_EXCEPTION

group_begin(infos) ==
    /\ license_infos' = infos
    /\ groups' = <<>>
    /\ gi' = 0
    /\ name' = None
    /\ dependencies' = <<>>
    /\ gpc' = "group"

\* the first loop: the groups, in the order their keys first appear
group_dependencies_group ==
    /\ gpc = "group"
    /\ groups' = make_groups(license_infos, <<>>)
    /\ gi' = 0
    /\ dependencies' = <<>>
    /\ gpc' = IF make_groups(license_infos, <<>>) = <<>> THEN "done" ELSE "emit"
    /\ UNCHANGED <<fsvars, source_path, xvars, fvars, license_infos, name, mvars>>

\* one iteration of the second loop; the return after the last one
group_dependencies_emit ==
    /\ gpc = "emit"
    /\ LET key   == groups[gi + 1].key
           items == groups[gi + 1].items
           nm    == group_name(key, items)
       IN  IF nm \in {AttributeError, ValueError}
           THEN /\ gpc' = "raised"
                /\ UNCHANGED <<gi, name, dependencies>>
           ELSE /\ name' = nm
                /\ gi' = gi + 1
                /\ dependencies' =
                      IF dropped(items) THEN dependencies
                      ELSE Append(dependencies,
                                  Dependency(nm, resolve_license(items[1]),
                                             final_notice(items)))
                /\ gpc' = IF gi + 1 = Len(groups) THEN "done" ELSE "emit"
    /\ UNCHANGED <<fsvars, source_path, xvars, fvars, license_infos, groups, mvars>>

-----------------------------------------------------------------------------
(* The file system of the batch and grouping specifications *)

Ln(s) == s \o <<"\n">>

Root == Path(TRUE, <<>>)
Cwd == Path(FALSE, <<>>)
DirA == child(Root, <<"a">>)
DirB == child(Root, <<"b">>)
DirR == child(Cwd, <<"r">>)
DirEmsdk == child(Root, <<"emsdk">>)
DirEmscripten == child(DirEmsdk, <<"emscripten">>)

\* the source files; "copying.c" is a source file whose name the license
\* file pattern matches
SourcePaths ==
    { child(DirA, <<"x", ".c">>), child(DirA, <<"copying", ".c">>),
      child(DirB, <<"z", ".c">>), child(DirR, <<"w", ".c">>),
      child(Cwd, <<"v", ".c">>) }

\* emscripten_dir / "LICENSE"
emscripten_license_path == child(DirEmscripten, <<"LICENSE">>)

\* the files that are there besides the source files
FixedFiles ==
    [p \in { child(DirB, <<"LICENSE">>), child(DirB, <<"NOTICE">>),
             child(DirR, <<"LICENSE">>), child(Cwd, <<"NOTICE">>),
             emscripten_license_path } |->
        IF p = child(DirB, <<"LICENSE">>) THEN <<>>
        ELSE IF p = child(DirB, <<"NOTICE">>) THEN << Ln(<<"text">>) >>
        ELSE IF p = child(DirR, <<"LICENSE">>)
        THEN << Ln(<<"Apache License v2.0">>), Ln(<<"with LLVM Exceptions">>) >>
        ELSE IF p = child(Cwd, <<"NOTICE">>)
        THEN << Ln(<<"MIT license">>) >>
        ELSE << Ln(EMSCRIPTEN_NOTICE),
                Ln(<<"This program uses portions of Node">>),
                Ln(<<"text">>) >>]

\* what iterdir() yields for each directory; /b/NOTICE is not listed
FixedListing ==
    [d \in {Root, Cwd, DirA, DirB, DirR} |->
        IF d = Root THEN << <<"a">>, <<"b">>, <<"emsdk">> >>
        ELSE IF d = Cwd THEN << <<"v", ".c">>, <<"NOTICE">>, <<"r">> >>
        ELSE IF d = DirA THEN << <<"x", ".c">>, <<"copying", ".c">> >>
        ELSE IF d = DirB THEN << <<"z", ".c">>, <<"LICENSE">> >>
        ELSE << <<"w", ".c">>, <<"LICENSE">> >>]

\* the text of /a/copying.c where it is not chosen
CopyingText == << Ln(<<"/", "/", " ", "Copyright", " ", "Acme">>), Ln(<<"int x;">>) >>

-----------------------------------------------------------------------------
(* main: the batch over the source list *)

\* source_path.is_file()
is_file(p) == p \in DOMAIN files /\ files[p] # NoFile

\* the replacement of an Emscripten notice by the Emscripten license file;
\* a record that is None or has no notice raises AttributeError, which is
\* passed over
substitute(info, emscripten_license) ==
    IF /\ info # NoneInfo
       /\ info.notice # None
       /\ startswith(strip(info.notice), EMSCRIPTEN_NOTICE)
    THEN [info EXCEPT !.license_path = emscripten_license, !.notice = None]
    ELSE info

\* find_license_info(source_path), up to the call of extract_license_from_source
main_next_source ==
    /\ mpc = "loop"
    /\ idx <= Len(source_paths)
    /\ IF is_file(source_paths[idx])
       THEN /\ extract_begin(source_paths[idx])
            /\ mpc' = "extract"
            /\ UNCHANGED <<idx, license_infos>>
       ELSE /\ license_infos' = Append(license_infos, NoneInfo)
            /\ idx' = idx + 1
            /\ mpc' = "loop"
            /\ UNCHANGED <<source_path, xvars>>
    /\ UNCHANGED <<fsvars, fvars, groups, gi, name, dependencies, gpc,
                   source_paths, output>>

\* `extract_license_from_source(source_path) or find_license_file(source_path)`
main_after_extract ==
    /\ mpc = "extract"
    /\ xpc = "done"
    /\ xpc' = "idle"
    /\ IF xresult # NoneInfo
       THEN /\ license_infos' = Append(license_infos, xresult)
            /\ idx' = idx + 1
            /\ mpc' = "loop"
            /\ UNCHANGED fvars
       ELSE /\ find_begin(source_path)
            /\ mpc' = "find"
            /\ UNCHANGED <<idx, license_infos>>
    /\ UNCHANGED <<fsvars, source_path, source_file, pos, line, license,
                   copyright, leader, comment, prefix, notice, xresult, groups,
                   gi, name, dependencies, gpc, source_paths, output>>

\* the return of find_license_info after find_license_file
main_after_find ==
    /\ mpc = "find"
    /\ fpc = "done"
    /\ fpc' = "idle"
    /\ license_infos' = Append(license_infos, fresult)
    /\ idx' = idx + 1
    /\ mpc' = "loop"
    /\ UNCHANGED <<fsvars, source_path, xvars, directory, fresult, groups, gi,
                   name, dependencies, gpc, source_paths, output>>

\* the end of the list: the substitution loop, then the call of
\* group_dependencies
main_substitute ==
    /\ mpc = "loop"
    /\ idx > Len(source_paths)
    /\ group_begin([i \in 1..Len(license_infos) |->
                      substitute(license_infos[i], emscripten_license_path)])
    /\ mpc' = "group"
    /\ UNCHANGED <<fsvars, source_path, xvars, fvars, source_paths, idx, output>>

\* json.dump({"dependencies": dependencies}, args.output, indent=2)
main_write ==
    /\ mpc = "group"
    /\ gpc = "done"
    /\ output' = dependencies
    /\ mpc' = "written"
    /\ UNCHANGED <<fsvars, source_path, xvars, fvars, gvars, source_paths, idx>>

\* an exception leaves the try block: the files are closed, nothing is written
main_abort ==
    /\ \/ mpc = "find" /\ fpc = "raised"
       \/ mpc = "group" /\ gpc = "raised"
    /\ mpc' = "aborted"
    /\ UNCHANGED <<fsvars, source_path, xvars, fvars, gvars, source_paths, idx,
                   output>>

-----------------------------------------------------------------------------
(* Specification of extract_license_from_source on one file *)

MaxLines == 3

\* the lines the files of the model are made of
Vocabulary ==
    { Ln(<<"/", "/", " ", "Copyright", " ", "Acme">>),
      Ln(<<"/", "/", " ", "SPDX-License-Identifier:", " ", "MIT">>),
      Ln(<<"/", "/", " ", "SPDX-License-Identifier:", " ",
           "Apache-2.0 WITH LLVM-exception">>),
      Ln(<<"/", "/", " ", "Copyright", " ", "Acme", " ",
           "SPDX-License-Identifier:", " ", "MIT">>),
      Ln(<<"/", "/", " ", "text">>),
      Ln(<<"/", "/", " ", "==========">>),
      Ln(<<"/", "*", " ", "Copyright", " ", "Acme">>),
      Ln(<<" ", "*", " ", "Copyright", " ", "Acme">>),
      Ln(<<" ", "*", " ", "text">>),
      Ln(<<" ", "*", "/">>),
      Ln(<<"Copyright", " ", "Acme">>),
      Ln(<<"==========">>),
      Ln(<<"int x;">>) }

Files(n) == UNION {[1..k -> Vocabulary] : k \in 0..n}

ExtractPath == Path(TRUE, << <<"a">>, <<"x", ".c">> >>)

FindIdle == directory = NonePath /\ fpc = "idle" /\ fresult = NoneInfo

GroupIdle ==
    /\ license_infos = <<>>
    /\ groups = <<>>
    /\ gi = 0
    /\ name = None
    /\ dependencies = <<>>
    /\ gpc = "idle"

MainIdle == source_paths = <<>> /\ idx = 1 /\ mpc = "idle" /\ output = None

InitExtract ==
    /\ \E f \in Files(MaxLines) : files = [p \in {ExtractPath} |-> f]
    /\ listing = <<>>
    /\ source_path = ExtractPath
    /\ source_file = files[ExtractPath]
    /\ pos = 1
    /\ line = <<>>
    /\ license = None
    /\ copyright = None
    /\ leader = None
    /\ comment = None
    /\ prefix = None
    /\ notice = None
    /\ xresult = NoneInfo
    /\ xpc = "scan"
    /\ FindIdle
    /\ GroupIdle
    /\ MainIdle

NextExtract ==
    \/ extract_license_from_source_scan
    \/ extract_license_from_source_notice

SpecExtract == InitExtract /\ [][NextExtract]_vars

-----------------------------------------------------------------------------
(* Specification of find_license_file on one source path *)

MaxEntries == 2

\* names a directory may hold besides the entry that leads to the source
EntryNames == { <<"LICENSE">>, <<"NOTICE", ".txt">>, <<"README", ".md">> }

\* the orders in which iterdir() may yield up to n of those names
Listings(n) ==
    {l \in UNION {[1..k -> EntryNames] : k \in 0..n} :
        \A i, j \in 1..Len(l) : i # j => l[i] # l[j]}

FindPaths ==
    { Path(TRUE, << <<"a">>, <<"b">>, <<"x", ".c">> >>),
      Path(FALSE, << <<"b">>, <<"x", ".c">> >>) }

\* the directories above p, nearest first
RECURSIVE ancestors(_)
ancestors(p) ==
    IF parent(p) = p THEN {} ELSE {parent(p)} \cup ancestors(parent(p))

\* the entry of directory d on the way to p
toward(d, p) == p.parts[Len(d.parts) + 1]

ExtractIdle ==
    /\ source_file = <<>>
    /\ pos = 1
    /\ line = <<>>
    /\ license = None
    /\ copyright = None
    /\ leader = None
    /\ comment = None
    /\ prefix = None
    /\ notice = None
    /\ xresult = NoneInfo
    /\ xpc = "idle"

InitFind ==
    /\ source_path \in FindPaths
    /\ files = [p \in {source_path} |-> << Ln(<<"int x;">>) >>]
    /\ \E others \in [ancestors(source_path) -> Listings(MaxEntries)] :
          listing = [d \in ancestors(source_path) |->
                        Append(others[d], toward(d, source_path))]
    /\ directory = parent(source_path)
    /\ fpc = "test"
    /\ fresult = NoneInfo
    /\ ExtractIdle
    /\ GroupIdle
    /\ MainIdle

NextFind ==
    \/ find_license_file_test
    \/ find_license_file_body

SpecFind == InitFind /\ [][NextFind]_vars

\* a sequential program takes its next step
FairSpecFind == SpecFind /\ WF_vars(NextFind)

-----------------------------------------------------------------------------
(* Specification of main() on a source list *)

MaxSources == 2
MaxSourceLines == 2

\* a path of the source list that names no file
MissingPath == child(DirA, <<"gone", ".c">>)

MainVocabulary ==
    { Ln(<<"/", "/", " ", "Copyright", " ", "Acme">>),
      Ln(<<"/", "/", " ", "SPDX-License-Identifier:", " ",
           "Apache-2.0 WITH LLVM-exception">>),
      Ln(<<"/", "/", " ", "text">>),
      Ln(<<"/", "/", " ", "Emscripten is available under two separate licenses">>) }

MainFiles == UNION {[1..k -> MainVocabulary] : k \in 0..MaxSourceLines}

\* source lists, no path twice
SourceLists(n) ==
    {l \in UNION {[1..k -> SourcePaths \cup {MissingPath}] : k \in 1..n} :
        \A i, j \in 1..Len(l) : i # j => l[i] # l[j]}

listed(l) == {l[i] : i \in 1..Len(l)} \ {MissingPath}

unlisted_text(p) == IF p = child(DirA, <<"copying", ".c">>) THEN CopyingText ELSE <<>>

\* /b as listed, /b with a second license file, /b with none
MainListings ==
    { FixedListing,
      [FixedListing EXCEPT ![DirB] = << <<"z", ".c">>, <<"LICENSE">>, <<"NOTICE">> >>],
      [FixedListing EXCEPT ![DirB] = << <<"z", ".c">> >>] }

InitMain ==
    /\ source_paths \in SourceLists(MaxSources)
    /\ \E texts \in [listed(source_paths) -> MainFiles] :
          files = FixedFiles
                  @@ texts
                  @@ [p \in SourcePaths |-> unlisted_text(p)]
                  @@ [p \in {MissingPath} |-> NoFile]
    /\ listing \in MainListings
    /\ source_path = NonePath
    /\ ExtractIdle
    /\ FindIdle
    /\ GroupIdle
    /\ idx = 1
    /\ mpc = "loop"
    /\ output = None

NextMain ==
    \/ main_next_source
    \/ extract_license_from_source_scan
    \/ extract_license_from_source_notice
    \/ main_after_extract
    \/ find_license_file_test
    \/ find_license_file_body
    \/ main_after_find
    \/ main_substitute
    \/ group_dependencies_group
    \/ group_dependencies_emit
    \/ main_write
    \/ main_abort

SpecMain == InitMain /\ [][NextMain]_vars

-----------------------------------------------------------------------------
(* Claims about extract_license_from_source *)

has_spdx(f, id) == \E i \in 1..Len(f) : spdx_license(f[i]) = id

has_copyright_line(f) == \E i \in 1..Len(f) : match_copyright(f[i]) # NoMatch

\* the line holds the closing "*/" of a block comment
closes_comment(ln) ==
    \E i \in 1..(Len(ln) - 1) : ln[i] = "*" /\ ln[i + 1] = "/"

\* C3: inside a block comment, the notice loop ends on the line that holds
\* the closing "*/", and the notice returned is what was gathered before
\* that line.
C3_StopsAtCommentClose ==
    [][(/\ xpc = "notice"
        /\ comment = <<" ", "*">>
        /\ closes_comment(readline))
       => (xpc' = "done" /\ xresult'.notice = notice_or_none(notice))]_vars

\* C9: a file with an SPDX line naming MIT and a copyright comment line (and
\* no LLVM-exception line) yields a LicenseInfo whose license is MIT,
\* wherever the SPDX line stands.
C9_LicenseFromSpdxLine ==
    (/\ xpc = "done"
     /\ has_spdx(source_file, <<"MIT">>)
     /\ has_copyright_line(source_file)
     /\ ~has_spdx(source_file, SPDX_IDENTIFIER_LLVM_EXCEPTION))
    => xresult.license = <<"MIT">>

\* C10: the notice loop ends at the latest when readline() reaches the end
\* of the file, whatever the prefix.
C10_NoticeLoopEndsAtEndOfFile ==
    [][(xpc = "notice" /\ pos > Len(source_file)) => xpc' = "done"]_vars

-----------------------------------------------------------------------------
(* Claims about find_license_file *)

\* C7: a directory with more than one license-named entry makes
\* find_license_file return the first of them; it does not raise.
C7_FirstOfSeveralLicenseFiles ==
    [][(fpc = "body" /\ Len(license_paths(directory)) > 1)
       => (/\ fpc' = "done"
           /\ fresult'.license_path = license_paths(directory)[1])]_vars

no_license_above(p) == \A d \in ancestors(p) : license_paths(d) = <<>>

\* C8: with no license-named entry in any directory above the source file,
\* find_license_file ends and returns None.
C8_ReturnsNoneWhenNothingFound ==
    no_license_above(source_path) => <>(fpc = "done" /\ fresult = NoneInfo)

-----------------------------------------------------------------------------
(* Specification of group_dependencies on a list of LicenseInfo records *)

MaxInfos == 2

\* the license file find_license_file returns for a source path
found_license(sp) ==
    IF parent(sp) = DirA THEN child(DirA, <<"copying", ".c">>)
    ELSE IF parent(sp) = Cwd THEN child(Cwd, <<"NOTICE">>)
    ELSE child(parent(sp), <<"LICENSE">>)

\* what extract_license_from_source returns as license and copyright: the
\* SPDX identifier is kept only when it stands on the copyright line
Statements ==
    { [license |-> None, copyright |-> <<"Copyright", " ", "Acme">>],
      [license |-> None, copyright |-> <<"Copyright", " ", "Bolt">>],
      [license |-> <<"MIT">>,
       copyright |-> <<"Copyright", " ", "Acme", " ",
                       "SPDX-License-Identifier:", " ", "MIT">>] }

Notices ==
    { None, <<"text">>,
      <<"Apache License v2.0", "\n", "with LLVM Exceptions">> }

\* the records find_license_info and the substitution of main() can produce
\* for a source path
InfosOf(sp) ==
    {LicenseInfo(sp, SPDX_IDENTIFIER_LLVM_EXCEPTION, None, None, NonePath)}
    \cup {LicenseInfo(sp, st.license, st.copyright, nt, NonePath) :
            st \in Statements, nt \in Notices}
    \cup {LicenseInfo(sp, st.license, st.copyright, None, emscripten_license_path) :
            st \in Statements}
    \cup {LicenseInfo(sp, None, None, None, found_license(sp))}

Infos == {NoneInfo} \cup UNION {InfosOf(sp) : sp \in SourcePaths}

\* lists of records, no source path twice
InfoLists(n) ==
    {l \in UNION {[1..k -> Infos] : k \in 0..n} :
        \A i, j \in 1..Len(l) :
            (i # j /\ l[i] # NoneInfo) => l[i].source_path # l[j].source_path}

InitGroup ==
    /\ files = FixedFiles @@ [p \in {child(DirA, <<"copying", ".c">>)} |-> CopyingText]
    /\ listing = FixedListing
    /\ source_path = NonePath
    /\ ExtractIdle
    /\ FindIdle
    /\ license_infos \in InfoLists(MaxInfos)
    /\ groups = <<>>
    /\ gi = 0
    /\ name = None
    /\ dependencies = <<>>
    /\ gpc = "group"
    /\ MainIdle

NextGroup ==
    \/ group_dependencies_group
    \/ group_dependencies_emit

SpecGroup == InitGroup /\ [][NextGroup]_vars

-----------------------------------------------------------------------------
(* Claims about group_dependencies *)

\* the records of the list that hold license path lp
holders(lp) ==
    {i \in 1..Len(license_infos) :
        license_infos[i] # NoneInfo /\ license_infos[i].license_path = lp}

license_paths_held ==
    {license_infos[i].license_path : i \in 1..Len(license_infos)} \ {NonePath}

members(k) == {groups[k].items[j] : j \in 1..Len(groups[k].items)}

\* group k has been through the second loop
processed(k) == k <= gi

\* the second loop raised on group k
raised_on(k) == gpc = "raised" /\ k = gi + 1

\* the place in `dependencies` of the entry of group k, when it has one
entry_of(k) == Cardinality({j \in 1..k : ~dropped(groups[j].items)})

grouped == gpc \in {"emit", "done", "raised"}

\* C2: the records that hold the same license path are in one group, which
\* holds no record with another license path; the second loop does not raise
\* on it, and emits one entry for it unless its license is the LLVM
\* exception; with two or more such records the entry is named after the
\* directory of the license file.
C2_SharedLicenseFileOneEntry ==
    grouped =>
        \A lp \in license_paths_held :
            \E k \in 1..Len(groups) :
                /\ \A i \in holders(lp) : license_infos[i] \in members(k)
                /\ \A j \in 1..Len(groups) :
                      j # k => \A i \in holders(lp) : license_infos[i] \notin members(j)
                /\ \A r \in members(k) : r.license_path \in {lp, NonePath}
                /\ ~raised_on(k)
                /\ (processed(k) /\ ~dropped(groups[k].items))
                      => /\ entry_of(k) \in 1..Len(dependencies)
                         /\ Cardinality(holders(lp)) >= 2
                               => dependencies[entry_of(k)].name = basename(parent(lp))

\* the distinct copyright statements of the items of a group
copyright_set(items) ==
    {items[i].copyright : i \in 1..Len(items)} \ {None, <<>>}

increasing(texts) ==
    \A i \in 1..(Len(texts) - 1) : text_less(texts[i], texts[i + 1])

\* the notice is the copyright statements in increasing order, joined by
\* sep, then two newlines, then the body; the body alone when there are none
notice_is(nt, items, sep) ==
    IF copyright_set(items) = {}
    THEN nt = resolve_notice(items[1])
    ELSE \E texts \in [1..Cardinality(copyright_set(items)) -> copyright_set(items)] :
            /\ increasing(texts)
            /\ nt = join(sep, texts) \o <<"\n", "\n">> \o resolve_notice(items[1])

\* C4, as claimed: the copyright statements are joined by a newline.
C4_CopyrightsJoinedByNewline ==
    \A k \in 1..Len(groups) :
        (processed(k) /\ ~dropped(groups[k].items))
            => notice_is(dependencies[entry_of(k)].notice, groups[k].items, <<"\n">>)

\* C4, amended: the notice of every entry is the sorted distinct copyright
\* statements of its group joined by a carriage return, then two newlines,
\* then the resolved notice body; the body alone when no item has a
\* copyright statement.
C4_CopyrightsJoinedByCarriageReturn ==
    \A k \in 1..Len(groups) :
        (processed(k) /\ ~dropped(groups[k].items))
            => notice_is(dependencies[entry_of(k)].notice, groups[k].items, <<"\r">>)

\* an entry was written for a group with two distinct copyright statements
C4_Witness ==
    /\ gpc = "done"
    /\ \E k \in 1..Len(groups) :
          /\ ~dropped(groups[k].items)
          /\ Cardinality(copyright_set(groups[k].items)) >= 2
          /\ dependencies[entry_of(k)].notice # resolve_notice(groups[k].items[1])

\* the representative has neither notice text of its own nor a license file
\* with text in it
no_body(item) ==
    /\ ~Truthy(item.notice)
    /\ item.license_path = NonePath \/ read_license_file(item.license_path) = <<>>

\* C5, as claimed: the notice of an entry is empty when its representative
\* has neither notice text nor license file text, and only then.
C5_NoticeEmptyWithoutBody ==
    \A k \in 1..Len(groups) :
        (processed(k) /\ ~dropped(groups[k].items))
            => (dependencies[entry_of(k)].notice = <<>> <=> no_body(groups[k].items[1]))

\* C5, amended: the notice of an entry is empty when its representative has
\* neither notice text nor license file text and no item of the group has a
\* copyright statement, and only then.
C5_NoticeEmptyWithoutBodyAndCopyright ==
    \A k \in 1..Len(groups) :
        (processed(k) /\ ~dropped(groups[k].items))
            => (dependencies[entry_of(k)].notice = <<>>
                  <=> (no_body(groups[k].items[1]) /\ copyright_set(groups[k].items) = {}))

\* one entry with an empty notice, and one for a record that holds only a
\* copyright statement
C5_Witness ==
    /\ gpc = "done"
    /\ \E k \in 1..Len(groups) :
          /\ ~dropped(groups[k].items)
          /\ no_body(groups[k].items[1])
          /\ copyright_set(groups[k].items) = {}
          /\ dependencies[entry_of(k)].notice = <<>>
    /\ \E k \in 1..Len(groups) :
          /\ ~dropped(groups[k].items)
          /\ no_body(groups[k].items[1])
          /\ copyright_set(groups[k].items) # {}
          /\ dependencies[entry_of(k)].notice # <<>>

\* the name claimed for a group of records that share notice text
claimed_name(items) ==
    IF common_parts(source_paths_of(items)) # <<>>
    THEN common_parts(source_paths_of(items))[Len(common_parts(source_paths_of(items)))]
    ELSE join(<<", ">>, sorted_list(names_of(items)))

\* C6: for a group of two or more records that share notice text, computing
\* the name does not raise, and the name is that of the deepest common
\* directory of the source paths, or the sorted file names joined by ", "
\* when there is none; it is not empty.
C6_SharedNoticeName ==
    \A k \in 1..Len(groups) :
        (~key_is_path(groups[k].key) /\ Len(groups[k].items) >= 2)
            => /\ ~raised_on(k)
               /\ (gi = k /\ gpc # "raised")
                     => (name # <<>> /\ name = claimed_name(groups[k].items))

-----------------------------------------------------------------------------
(* Claims about the batch *)

\* C1: when the output is written, no group that holds the record of a file
\* with an "SPDX-License-Identifier: Apache-2.0 WITH LLVM-exception" line
\* has an entry in it.
C1_LlvmExceptionFilesAbsent ==
    mpc = "written" =>
        \A i \in 1..Len(source_paths) :
            (/\ is_file(source_paths[i])
             /\ has_spdx(files[source_paths[i]], SPDX_IDENTIFIER_LLVM_EXCEPTION))
            => \A k \in 1..Len(groups) :
                  (\E r \in members(k) : r.source_path = source_paths[i])
                      => dropped(groups[k].items)

====
